---- MODULE Spec2Model ----
(***************************************************************************)
(* Ligretto tournament scheduler (src/main.py): randomised Latin-square    *)
(* seating, the score ledger df_all kept by the round loop of main(), the  *)
(* per-round correction pass and the cumulative aggregation.               *)
(*                                                                         *)
(* Python lists are modelled as functions over 0..n-1 (the code's own      *)
(* indexing); DataFrames are sequences of row records in index order.      *)
(* Scores are floats with exact values here: a raw score is an integer,    *)
(* a corrected score a normalised fraction [num, den]; NaN is den = 0.     *)
(***************************************************************************)
EXTENDS Integers, Sequences, FiniteSets, TLC

\* ---------------------------------------------------------------- bounds
\* main() hard-codes seven players; the round loop is generic in
\* n = len(players), so the model runs it for every n in 1..MaxPlayers.
MaxPlayers == 3
\* Cap on the number of ledger rows: a round is only collected while the
\* ledger has room for its n rows (the prompt for input blocks otherwise).
MaxRows == 6
\* Largest player list handed to create_seating_plan on its own.
MaxN == 3
\* Ledgers handed to the aggregation on its own: rounds 1..MaxAggRounds.
MaxAggRounds == 3

\* The pool of player identifiers (main.py:55 uses "A".."G").
PlayerPool == <<"A", "B", "C", "D", "E", "F", "G">>

VARIABLES
    players,       \* list of player ids, a function over 0..n-1
    latin_sq,      \* the design returned by generate_random_latin_square
    seating_plan,  \* DataFrame of the current block's plan
    plan_status,   \* "none", "ok" or the exception create_seating_plan raised
    plan_log,      \* observation: block number -> that block's seating plan
    block_count,   \* main.py:61
    r,             \* round within the block, main.py:71
    idx,           \* position of the input loop in round_plan, main.py:81
    punkte_dict,   \* main.py:80
    eingaben,      \* observation: the text entered for each player this round
    df_all,        \* the score ledger, main.py:59
    policy_log,    \* observation: branch taken by each correction pass
    fit_status,    \* observation: outcome of the last mixedlm fit
    pivot_cum,     \* main.py:116
    pc             \* position of the program

vars == <<players, latin_sq, seating_plan, plan_status, plan_log, block_count,
          r, idx, punkte_dict, eingaben, df_all, policy_log, fit_status,
          pivot_cum, pc>>

\* ------------------------------------------------------------ arithmetic
Range0(n) == 0 .. (n - 1)

Abs(x) == IF x < 0 THEN -x ELSE x

RECURSIVE GCD(_, _)
GCD(a, b) == IF b = 0 THEN a ELSE GCD(b, a % b)

\* The float num/den, den > 0, in lowest terms.
Frac(num, den) ==
    LET g == GCD(Abs(num), den)
    IN  [num |-> num \div g, den |-> den \div g]

NaN == [num |-> 0, den |-> 0]
IsNaN(x) == x.den = 0
FromInt(i) == [num |-> i, den |-> 1]
Zero == FromInt(0)

FAdd(x, y) ==
    IF IsNaN(x) \/ IsNaN(y) THEN NaN
    ELSE Frac(x.num * y.den + y.num * x.den, x.den * y.den)

FSub(x, y) ==
    IF IsNaN(x) \/ IsNaN(y) THEN NaN
    ELSE Frac(x.num * y.den - y.num * x.den, x.den * y.den)

\* ------------------------------------------------------ design generator
\* random.shuffle(list(range(n))) can leave any permutation of 0..n-1.
Perms(n) ==
    { p \in [Range0(n) -> Range0(n)] :
        \A a, b \in Range0(n) : a # b => p[a] # p[b] }

generate_random_latin_square_colbug(n, symbol_perm, col_perm) ==
    [i \in Range0(n) |->
        [k \in Range0(n) |-> symbol_perm[(i + col_perm[i]) % n]]]

\* main.py:6-31, the two shuffles' results passed in.
generate_random_latin_square(n, symbol_perm, col_perm) ==
    LET L0(i, j) == (i + j) % n
        L(i, j)  == symbol_perm[L0(i, j)]
        L_perm   == [i \in Range0(n) |-> [k \in Range0(n) |-> L(i, col_perm[k])]]
    IN  L_perm

\* ------------------------------------------------- seating plan builder
Len0(list) == Cardinality(DOMAIN list)

\* Row a sorts no later than row b under by=["Runde", "Platz"].
KeyLeq(a, b) ==
    \/ a.Runde < b.Runde
    \/ a.Runde = b.Runde /\ a.Platz <= b.Platz

\* s is sorted; row goes behind the last row that sorts no later than it.
RECURSIVE insert_sorted(_, _)
insert_sorted(s, row) ==
    IF s = <<>> THEN <<row>>
    ELSE IF KeyLeq(s[Len(s)], row) THEN Append(s, row)
    ELSE Append(insert_sorted(SubSeq(s, 1, Len(s) - 1), row), s[Len(s)])

\* The rows of df in ascending (Runde, Platz) order, ties in index order.
RECURSIVE sort_rows(_)
sort_rows(df) ==
    IF df = <<>> THEN <<>>
    ELSE insert_sorted(sort_rows(SubSeq(df, 1, Len(df) - 1)), df[Len(df)])

sort_values_lenient(df) == [status |-> "ok", df |-> sort_rows(df)]

\* df.sort_values(by=["Runde", "Platz"]).reset_index(drop=True), main.py:52.
\* pd.DataFrame([]) has no columns, so looking up "Runde" raises KeyError.
sort_values(df) ==
    IF df = <<>>
    THEN [status |-> "KeyError", df |-> <<>>]
    ELSE [status |-> "ok", df |-> sort_rows(df)]

plan_data_fixed_seat(players_, latin_sq_) ==
    LET n == Len0(players_)
    IN  [k \in 1 .. n * n |->
            [Runde   |-> ((k - 1) \div n) + 1,
             Platz   |-> ((k - 1) % n) + 1,
             Spieler |-> players_[(k - 1) % n]]]

\* main.py:41-49: the rows in the order the two loops append them.
plan_data(players_, latin_sq_) ==
    LET n == Len0(players_)
    IN  [k \in 1 .. n * n |->
            [Runde   |-> ((k - 1) \div n) + 1,
             Platz   |-> ((k - 1) % n) + 1,
             Spieler |-> players_[latin_sq_[(k - 1) \div n][(k - 1) % n]]]]

\* main.py:33-52.  The result carries the design so that callers can see it.
create_seating_plan(players_, symbol_perm, col_perm) ==
    LET n      == Len0(players_)
        latin  == generate_random_latin_square(n, symbol_perm, col_perm)
        sorted == sort_values(plan_data(players_, latin))
    IN  [status |-> sorted.status, df |-> sorted.df, latin_sq |-> latin]

\* ---------------------------------------------------------- score entry
\* Text typed at the prompt, as tuples of characters.  float() accepts far
\* more than this model parses (blanks, ".", exponents, "nan", ...); the
\* entries below are chosen so that the model and float() agree on them:
\* "3" parses, "" and "3x" raise ValueError.
Eingaben == { <<"3">>, <<>>, <<"3", "x">> }

Digits == {"0", "1", "2", "3", "4", "5", "6", "7", "8", "9"}

DigitVal(c) ==
    CASE c = "0" -> 0 [] c = "1" -> 1 [] c = "2" -> 2 [] c = "3" -> 3
      [] c = "4" -> 4 [] c = "5" -> 5 [] c = "6" -> 6 [] c = "7" -> 7
      [] c = "8" -> 8 [] c = "9" -> 9

IsSign(c) == c \in {"+", "-"}

\* float(eingabe) succeeds: an optional sign followed by one or more digits.
CanParse(eingabe) ==
    LET body == IF Len(eingabe) >= 1 /\ IsSign(eingabe[1])
                THEN Tail(eingabe) ELSE eingabe
    IN  /\ Len(body) >= 1
        /\ \A i \in 1 .. Len(body) : body[i] \in Digits

RECURSIVE DecimalValue(_)
DecimalValue(body) ==
    IF body = <<>> THEN 0
    ELSE 10 * DecimalValue(SubSeq(body, 1, Len(body) - 1))
            + DigitVal(body[Len(body)])

ParseFloat(eingabe) ==
    IF eingabe[1] = "-" THEN - DecimalValue(Tail(eingabe))
    ELSE IF eingabe[1] = "+" THEN DecimalValue(Tail(eingabe))
    ELSE DecimalValue(eingabe)

punkte_from_eingabe_nonzero(eingabe) ==
    IF CanParse(eingabe) THEN ParseFloat(eingabe) ELSE 1

\* main.py:85-88: try float(eingabe), except ValueError 0.0.
punkte_from_eingabe(eingabe) ==
    IF CanParse(eingabe) THEN ParseFloat(eingabe) ELSE 0

\* --------------------------------------------------------------- ledger
\* seating_plan[seating_plan["Runde"] == r], main.py:75.
round_plan(plan, r_) == SelectSeq(plan, LAMBDA row : row.Runde = r_)

append_rows_local_round(df, plan, block, r_, n, dict) ==
    df \o [k \in 1 .. Len(round_plan(plan, r_)) |->
            [Block   |-> block,
             Runde   |-> r_,
             Spieler |-> round_plan(plan, r_)[k].Spieler,
             Platz   |-> round_plan(plan, r_)[k].Platz,
             Punkte  |-> dict[round_plan(plan, r_)[k].Spieler],
             Punkte_vorhergesagt |-> NaN,
             Punkte_korr |-> NaN,
             Final_korr  |-> NaN]]

\* main.py:92-100: one df_all.append per row of round_plan.  Columns the
\* appended dict does not name are NaN in the new row.
append_rows(df, plan, block, r_, n, dict) ==
    df \o [k \in 1 .. Len(round_plan(plan, r_)) |->
            [Block   |-> block,
             Runde   |-> r_ + (block - 1) * n,
             Spieler |-> round_plan(plan, r_)[k].Spieler,
             Platz   |-> round_plan(plan, r_)[k].Platz,
             Punkte  |-> dict[round_plan(plan, r_)[k].Spieler],
             Punkte_vorhergesagt |-> NaN,
             Punkte_korr |-> NaN,
             Final_korr  |-> NaN]]

\* df_all["Runde"].nunique(), main.py:103.
nunique_runde(df) == Cardinality({ df[i].Runde : i \in 1 .. Len(df) })

use_mixed_model_late(df) == nunique_runde(df) >= 3

\* The branch condition of main.py:103.
use_mixed_model(df) == nunique_runde(df) >= 2

\* ----------------------------------------------------------- correction
\* Sum of Punkte over the rows of df that sit at seat platz.
RECURSIVE SumPunkte(_, _)
SumPunkte(df, platz) ==
    IF df = <<>> THEN 0
    ELSE SumPunkte(SubSeq(df, 1, Len(df) - 1), platz)
            + (IF df[Len(df)].Platz = platz THEN df[Len(df)].Punkte ELSE 0)

CountSeat(df, platz) ==
    Cardinality({ i \in 1 .. Len(df) : df[i].Platz = platz })

\* df_all.groupby("Platz")["Punkte"].transform("mean") at a row of seat platz.
seat_mean(df, platz) == Frac(SumPunkte(df, platz), CountSeat(df, platz))

RECURSIVE SumAll(_)
SumAll(df) ==
    IF df = <<>> THEN 0
    ELSE SumAll(SubSeq(df, 1, Len(df) - 1)) + df[Len(df)].Punkte

naive_correction_global(df) ==
    [i \in 1 .. Len(df) |->
        [df[i] EXCEPT !.Punkte_korr =
            FSub(FromInt(df[i].Punkte), Frac(SumAll(df), Len(df)))]]

\* main.py:111.
naive_correction(df) ==
    [i \in 1 .. Len(df) |->
        [df[i] EXCEPT !.Punkte_korr =
            FSub(FromInt(df[i].Punkte), seat_mean(df, df[i].Platz))]]

\* What mixedlm("Punkte ~ C(Platz)", groups=Spieler).fit() can return is not
\* computed here: fittedvalues has the form fe[seat] + re[player], and the
\* optimiser's estimates are drawn from small sets; the fit may also raise.
FixedEffects  == {0, 1}
RandomEffects == {0, 1}

fittedvalues(df, fe, re) ==
    [i \in 1 .. Len(df) |-> FromInt(fe[df[i].Platz] + re[df[i].Spieler])]

mixed_correction_clobber(df, fitted) ==
    [i \in 1 .. Len(df) |->
        [df[i] EXCEPT !.Punkte_vorhergesagt = fitted[i],
                      !.Punkte = df[i].Punkte - fitted[i].num,
                      !.Punkte_korr = FSub(FromInt(df[i].Punkte), fitted[i])]]

\* main.py:107-108.
mixed_correction(df, fitted) ==
    [i \in 1 .. Len(df) |->
        [df[i] EXCEPT !.Punkte_vorhergesagt = fitted[i],
                      !.Punkte_korr = FSub(FromInt(df[i].Punkte), fitted[i])]]

\* main.py:138, with final_model.fittedvalues = fitted.
final_correction(df, fitted) ==
    [i \in 1 .. Len(df) |->
        [df[i] EXCEPT !.Final_korr = FSub(FromInt(df[i].Punkte), fitted[i])]]

\* ---------------------------------------------------------- aggregation
RundenIn(df)  == { df[i].Runde : i \in 1 .. Len(df) }
SpielerIn(df) == { df[i].Spieler : i \in 1 .. Len(df) }

\* Sum of Punkte_korr over the rows of player sp with lo <= Runde <= hi;
\* like pandas' sum, NaN entries are skipped.
RECURSIVE SumKorr(_, _, _, _)
SumKorr(df, sp, lo, hi) ==
    IF df = <<>> THEN Zero
    ELSE LET row  == df[Len(df)]
             rest == SumKorr(SubSeq(df, 1, Len(df) - 1), sp, lo, hi)
         IN  IF /\ row.Spieler = sp
                /\ row.Runde >= lo /\ row.Runde <= hi
                /\ ~ IsNaN(row.Punkte_korr)
             THEN FAdd(rest, row.Punkte_korr)
             ELSE rest

HasRow(df, g, sp) ==
    \E i \in 1 .. Len(df) : df[i].Runde = g /\ df[i].Spieler = sp

\* main.py:114-115: one df_agg row per (Runde, Spieler) present in df, its
\* Punkte_korr_cum the running sum of the player's per-round sums.
punkte_korr_cum(df, g, sp) == SumKorr(df, sp, 1, g)

\* main.py:116: pivot on Runde x Spieler; cells without a df_agg row are NaN
\* and fillna(0) sets them to 0.
aggregate(df) ==
    [g \in RundenIn(df) |->
        [sp \in SpielerIn(df) |->
            IF HasRow(df, g, sp) THEN punkte_korr_cum(df, g, sp) ELSE Zero]]

\* ------------------------------------------------------- block question
\* Answers typed at "Neuen Block spielen? (j/n): ", as tuples of characters.
Antworten == { <<"n">>, <<"N">>, <<" ", "n">>, <<"j">>, <<>> }

RECURSIVE LStrip(_)
LStrip(s) == IF s # <<>> /\ s[1] = " " THEN LStrip(Tail(s)) ELSE s

RECURSIVE RStrip(_)
RStrip(s) ==
    IF s # <<>> /\ s[Len(s)] = " " THEN RStrip(SubSeq(s, 1, Len(s) - 1)) ELSE s

LowerChar(c) == CASE c = "N" -> "n" [] c = "J" -> "j" [] OTHER -> c

\* input(...).strip().lower(), main.py:128.
strip_lower(s) ==
    LET t == RStrip(LStrip(s)) IN [i \in 1 .. Len(t) |-> LowerChar(t[i])]

\* ------------------------------------------------------------ main loop
n_players == Len0(players)

PlayerList(n) == [i \in Range0(n) |-> PlayerPool[i + 1]]

WithBlock(plan, block) ==
    [k \in 1 .. Len(plan) |->
        [Runde |-> plan[k].Runde, Platz |-> plan[k].Platz,
         Spieler |-> plan[k].Spieler, Block |-> block]]

Init ==
    /\ players \in { PlayerList(n) : n \in 1 .. MaxPlayers }
    /\ latin_sq = <<>>
    /\ seating_plan = <<>>
    /\ plan_status = "none"
    /\ plan_log = <<>>
    /\ block_count = 0
    /\ r = 0
    /\ idx = 0
    /\ punkte_dict = <<>>
    /\ eingaben = <<>>
    /\ df_all = <<>>
    /\ policy_log = <<>>
    /\ fit_status = "none"
    /\ pivot_cum = <<>>
    /\ pc = "block"

\* main.py:63-68: next block, its seating plan, then the first round.
StartBlock ==
    /\ pc = "block"
    /\ \E symbol_perm \in Perms(n_players), col_perm \in Perms(n_players) :
         LET plan == create_seating_plan(players, symbol_perm, col_perm)
         IN  /\ latin_sq' = plan.latin_sq
             /\ plan_status' = plan.status
             /\ seating_plan' = WithBlock(plan.df, block_count + 1)
             /\ plan_log' = Append(plan_log, WithBlock(plan.df, block_count + 1))
             /\ pc' = IF plan.status = "ok" THEN "round" ELSE "crashed"
    /\ block_count' = block_count + 1
    /\ r' = 1
    /\ UNCHANGED <<players, idx, punkte_dict, eingaben, df_all, policy_log,
                   fit_status, pivot_cum>>

\* main.py:72-80: the round's seating is shown and punkte_dict starts empty.
StartRound ==
    /\ pc = "round"
    /\ Len(df_all) + n_players <= MaxRows
    /\ punkte_dict' = <<>>
    /\ eingaben' = <<>>
    /\ idx' = 1
    /\ pc' = "input"
    /\ UNCHANGED <<players, latin_sq, seating_plan, plan_status, plan_log,
                   block_count, r, df_all, policy_log, fit_status, pivot_cum>>

\* main.py:81-89: one prompt of the input loop.
Eingabe ==
    /\ pc = "input"
    /\ \E eingabe \in Eingaben :
         LET row == round_plan(seating_plan, r)[idx]
             sp  == row.Spieler
         IN  /\ punkte_dict' =
                    [x \in DOMAIN punkte_dict \cup {sp} |->
                        IF x = sp THEN punkte_from_eingabe(eingabe)
                        ELSE punkte_dict[x]]
             /\ eingaben' =
                    [x \in DOMAIN eingaben \cup {sp} |->
                        IF x = sp THEN eingabe ELSE eingaben[x]]
    /\ idx' = idx + 1
    /\ pc' = IF idx = Len(round_plan(seating_plan, r)) THEN "append" ELSE "input"
    /\ UNCHANGED <<players, latin_sq, seating_plan, plan_status, plan_log,
                   block_count, r, df_all, policy_log, fit_status, pivot_cum>>

\* main.py:92-100.
AppendRound ==
    /\ pc = "append"
    /\ df_all' = append_rows(df_all, seating_plan, block_count, r, n_players,
                             punkte_dict)
    /\ pc' = "correct"
    /\ UNCHANGED <<players, latin_sq, seating_plan, plan_status, plan_log,
                   block_count, r, idx, punkte_dict, eingaben, policy_log,
                   fit_status, pivot_cum>>

\* main.py:103-108, the fit returning.
CorrectMixed ==
    /\ pc = "correct"
    /\ use_mixed_model(df_all)
    /\ \E fe \in [1 .. n_players -> FixedEffects],
          re \in [SpielerIn(df_all) -> RandomEffects] :
         df_all' = mixed_correction(df_all, fittedvalues(df_all, fe, re))
    /\ fit_status' = "ok"
    /\ policy_log' = Append(policy_log, "MULTI_ROUND")
    /\ eingaben' = <<>>
    /\ pc' = "plot"
    /\ UNCHANGED <<players, latin_sq, seating_plan, plan_status, plan_log,
                   block_count, r, idx, punkte_dict, pivot_cum>>

\* main.py:103-105, the fit raising: nothing catches the exception.
CorrectMixedRaises ==
    /\ pc = "correct"
    /\ use_mixed_model(df_all)
    /\ fit_status' = "raised"
    /\ policy_log' = Append(policy_log, "MULTI_ROUND")
    /\ eingaben' = <<>>
    /\ pc' = "crashed"
    /\ UNCHANGED <<players, latin_sq, seating_plan, plan_status, plan_log,
                   block_count, r, idx, punkte_dict, df_all, pivot_cum>>

\* main.py:109-111.
CorrectNaive ==
    /\ pc = "correct"
    /\ ~ use_mixed_model(df_all)
    /\ df_all' = naive_correction(df_all)
    /\ policy_log' = Append(policy_log, "SINGLE_ROUND")
    /\ eingaben' = <<>>
    /\ pc' = "plot"
    /\ UNCHANGED <<players, latin_sq, seating_plan, plan_status, plan_log,
                   block_count, r, idx, punkte_dict, fit_status, pivot_cum>>

\* main.py:114-125, then the next round of the block or the block question.
Plot ==
    /\ pc = "plot"
    /\ pivot_cum' = aggregate(df_all)
    /\ IF r < n_players
       THEN r' = r + 1 /\ pc' = "round"
       ELSE r' = r /\ pc' = "ask"
    /\ UNCHANGED <<players, latin_sq, seating_plan, plan_status, plan_log,
                   block_count, idx, punkte_dict, eingaben, df_all, policy_log,
                   fit_status>>

\* main.py:128-130.
Ask ==
    /\ pc = "ask"
    /\ \E weitermachen \in Antworten :
         pc' = IF strip_lower(weitermachen) = <<"n">> THEN "final" ELSE "block"
    /\ UNCHANGED <<players, latin_sq, seating_plan, plan_status, plan_log,
                   block_count, r, idx, punkte_dict, eingaben, df_all,
                   policy_log, fit_status, pivot_cum>>

\* main.py:133-144.  The final fit sees the ledger the last pass saw, and the
\* fit has no randomness: it returns what that pass stored in
\* Punkte_vorhergesagt.
Final ==
    /\ pc = "final"
    /\ df_all' =
         IF use_mixed_model(df_all)
         THEN final_correction(df_all,
                  [i \in 1 .. Len(df_all) |-> df_all[i].Punkte_vorhergesagt])
         ELSE df_all
    /\ pc' = "done"
    /\ UNCHANGED <<players, latin_sq, seating_plan, plan_status, plan_log,
                   block_count, r, idx, punkte_dict, eingaben, policy_log,
                   fit_status, pivot_cum>>

Next ==
    \/ StartBlock
    \/ StartRound
    \/ Eingabe
    \/ AppendRound
    \/ CorrectMixed
    \/ CorrectMixedRaises
    \/ CorrectNaive
    \/ Plot
    \/ Ask
    \/ Final

Spec == Init /\ [][Next]_vars

\* ------------------------------------- generator and builder on their own
\* Every list of distinct players of length 0..MaxN over the pool.
PlayerLists ==
    UNION { { p \in [Range0(n) -> { PlayerPool[i] : i \in 1 .. MaxN }] :
                \A a, b \in Range0(n) : a # b => p[a] # p[b] } :
            n \in 0 .. MaxN }

InitBuild ==
    /\ players \in PlayerLists
    /\ latin_sq = <<>>
    /\ seating_plan = <<>>
    /\ plan_status = "none"
    /\ plan_log = <<>>
    /\ block_count = 0
    /\ r = 0
    /\ idx = 0
    /\ punkte_dict = <<>>
    /\ eingaben = <<>>
    /\ df_all = <<>>
    /\ policy_log = <<>>
    /\ fit_status = "none"
    /\ pivot_cum = <<>>
    /\ pc = "call"

\* generate_random_latin_square(len(players)).
GenerateCall ==
    /\ pc = "call"
    /\ \E symbol_perm \in Perms(n_players), col_perm \in Perms(n_players) :
         latin_sq' = generate_random_latin_square(n_players, symbol_perm, col_perm)
    /\ pc' = "generated"
    /\ UNCHANGED <<players, seating_plan, plan_status, plan_log, block_count,
                   r, idx, punkte_dict, eingaben, df_all, policy_log,
                   fit_status, pivot_cum>>

\* create_seating_plan(players).
BuildCall ==
    /\ pc = "call"
    /\ \E symbol_perm \in Perms(n_players), col_perm \in Perms(n_players) :
         LET plan == create_seating_plan(players, symbol_perm, col_perm)
         IN  /\ latin_sq' = plan.latin_sq
             /\ plan_status' = plan.status
             /\ seating_plan' = plan.df
    /\ pc' = "built"
    /\ UNCHANGED <<players, plan_log, block_count, r, idx, punkte_dict,
                   eingaben, df_all, policy_log, fit_status, pivot_cum>>

NextBuild == GenerateCall \/ BuildCall

SpecBuild == InitBuild /\ [][NextBuild]_vars

\* ------------------------------------------------ aggregation on its own
AggSpieler == <<"A", "B">>
AggKorr == {-1, 2, 3}
AggPairs == (1 .. MaxAggRounds) \X (1 .. Len(AggSpieler))

\* The ledger with one row per pair in DOMAIN vals, in round order.  The
\* ledgers drawn number their rounds 1..k without a gap, as main() does; a
\* player may lack a row in any of them.
RECURSIVE LedgerOf(_, _)
LedgerOf(vals, k) ==
    IF k = 0 THEN <<>>
    ELSE LET g == ((k - 1) \div Len(AggSpieler)) + 1
             s == ((k - 1) % Len(AggSpieler)) + 1
         IN  LedgerOf(vals, k - 1) \o
               (IF <<g, s>> \in DOMAIN vals
                THEN << [Block   |-> 1,
                         Runde   |-> g,
                         Spieler |-> AggSpieler[s],
                         Platz   |-> s,
                         Punkte  |-> 0,
                         Punkte_vorhergesagt |-> NaN,
                         Punkte_korr |-> FromInt(vals[<<g, s>>]),
                         Final_korr  |-> NaN] >>
                ELSE <<>>)

InitAgg ==
    /\ \E present \in SUBSET AggPairs :
         \E vals \in [present -> AggKorr] :
            /\ \E k \in 0 .. MaxAggRounds : { p[1] : p \in present } = 1 .. k
            /\ df_all = LedgerOf(vals, MaxAggRounds * Len(AggSpieler))
    /\ players = <<>>
    /\ latin_sq = <<>>
    /\ seating_plan = <<>>
    /\ plan_status = "none"
    /\ plan_log = <<>>
    /\ block_count = 0
    /\ r = 0
    /\ idx = 0
    /\ punkte_dict = <<>>
    /\ eingaben = <<>>
    /\ policy_log = <<>>
    /\ fit_status = "none"
    /\ pivot_cum = <<>>
    /\ pc = "ledger"

\* main.py:114-116 applied to the ledger.
AggregateCall ==
    /\ pc = "ledger"
    /\ pivot_cum' = aggregate(df_all)
    /\ pc' = "aggregated"
    /\ UNCHANGED <<players, latin_sq, seating_plan, plan_status, plan_log,
                   block_count, r, idx, punkte_dict, eingaben, df_all,
                   policy_log, fit_status>>

NextAgg == AggregateCall

SpecAgg == InitAgg /\ [][NextAgg]_vars

\* ============================================================ properties
PlayerSet == { players[i] : i \in DOMAIN players }

IsLatinSquare(L, n) ==
    /\ DOMAIN L = Range0(n)
    /\ \A i \in Range0(n) :
         /\ DOMAIN L[i] = Range0(n)
         /\ { L[i][j] : j \in Range0(n) } = Range0(n)
    /\ \A j \in Range0(n) : { L[i][j] : i \in Range0(n) } = Range0(n)

\* C1: for every n >= 1 and every pair of shuffles, the matrix returned by
\* generate_random_latin_square(n) is n x n with every row and every column
\* a permutation of 0..n-1; for n = 1 it is the 1x1 design [[0]].
C1_LatinSquare ==
    (pc \in {"generated", "built"} /\ n_players >= 1) =>
        /\ IsLatinSquare(latin_sq, n_players)
        /\ n_players = 1 => latin_sq = [i \in {0} |-> [j \in {0} |-> 0]]

C1_Witness ==
    /\ pc = "generated"
    /\ n_players = MaxN
    /\ latin_sq[0][0] # 0
    /\ latin_sq[0][1] # (latin_sq[0][0] + 1) % n_players

RowsWith(df, rr, sp) ==
    { k \in 1 .. Len(df) : df[k].Runde = rr /\ df[k].Spieler = sp }

SeatRowsWith(df, s, sp) ==
    { k \in 1 .. Len(df) : df[k].Platz = s /\ df[k].Spieler = sp }

\* C2: for n >= 1 distinct players create_seating_plan returns n*n rows,
\* ordered by round then seat with both numbered 1..n (so every (round, seat)
\* pair occurs once), every player once in each round and once at each seat.
C2_SeatingPlan ==
    (pc = "built" /\ n_players >= 1) =>
        LET n == n_players IN
        /\ plan_status = "ok"
        /\ Len(seating_plan) = n * n
        /\ \A k \in 1 .. Len(seating_plan) :
             /\ seating_plan[k].Runde = ((k - 1) \div n) + 1
             /\ seating_plan[k].Platz = ((k - 1) % n) + 1
        /\ \A sp \in PlayerSet :
             /\ \A rr \in 1 .. n : Cardinality(RowsWith(seating_plan, rr, sp)) = 1
             /\ \A s \in 1 .. n : Cardinality(SeatRowsWith(seating_plan, s, sp)) = 1

C2_Witness ==
    /\ pc = "built"
    /\ n_players = MaxN
    /\ seating_plan[1].Spieler # players[0]
    /\ seating_plan[2].Spieler # players[1]

\* C6 as stated: building a seating plan for fewer than one player is
\* rejected with an InvalidInput error.
C6_InvalidInput ==
    (pc = "built" /\ n_players < 1) => plan_status = "InvalidInput"

\* C6 amended: the builder generates the design from len(players), so the
\* design's dimension always equals the list length; for the empty list the
\* generator returns the empty design and the builder fails with a KeyError
\* (raised by the sort of the column-less table) without returning a row;
\* for n >= 1 the builder does not fail.
C6_EmptyListKeyError ==
    /\ pc \in {"generated", "built"} => DOMAIN latin_sq = Range0(n_players)
    /\ (pc = "built" /\ n_players < 1) =>
            plan_status = "KeyError" /\ seating_plan = <<>>
    /\ (pc = "built" /\ n_players >= 1) => plan_status = "ok"

C6_Witness ==
    pc = "built" /\ n_players = 0 /\ plan_status = "KeyError"

\* Rounds whose rows have been appended, from the position of the program.
RoundsCompleted ==
    IF block_count = 0 THEN 0
    ELSE IF pc \in {"round", "input", "append"}
         THEN (block_count - 1) * n_players + r - 1
         ELSE IF pc \in {"correct", "plot", "crashed"}
              THEN (block_count - 1) * n_players + r
              ELSE block_count * n_players

LedgerPairs(g) ==
    { <<df_all[i].Spieler, df_all[i].Platz>> :
        i \in { j \in 1 .. Len(df_all) : df_all[j].Runde = g } }

PlanPairs(b, rr) ==
    { <<plan_log[b][k].Spieler, plan_log[b][k].Platz>> :
        k \in { j \in 1 .. Len(plan_log[b]) : plan_log[b][j].Runde = rr } }

\* C3: after k completed rounds the ledger holds exactly n rows for each
\* global round 1..k and no other round; the rows of global round
\* g = r + (block-1)*n carry exactly the (player, seat) pairs of round r of
\* that block's plan, each player once; rounds never decrease in row order.
C3_LedgerMatchesPlan ==
    LET n == n_players IN
    /\ RundenIn(df_all) = 1 .. RoundsCompleted
    /\ \A g \in 1 .. RoundsCompleted :
         LET b  == ((g - 1) \div n) + 1
             rr == ((g - 1) % n) + 1
         IN  /\ Cardinality({ i \in 1 .. Len(df_all) : df_all[i].Runde = g }) = n
             /\ LedgerPairs(g) = PlanPairs(b, rr)
             /\ \A sp \in PlayerSet : Cardinality(RowsWith(df_all, g, sp)) = 1
             /\ \A i \in 1 .. Len(df_all) :
                  df_all[i].Runde = g => df_all[i].Block = b
    /\ \A i, j \in 1 .. Len(df_all) : i < j => df_all[i].Runde <= df_all[j].Runde

C3_Witness ==
    /\ n_players >= 2
    /\ block_count = 2
    /\ pc = "plot"
    /\ latin_sq[0][0] # 0

\* C4: a correction pass takes the naive branch iff the ledger then holds
\* exactly one distinct global round; there is one pass per round, the first
\* pass of a run is SINGLE_ROUND and every later pass is MULTI_ROUND.
C4_Policy ==
    /\ \A i \in 1 .. Len(policy_log) : policy_log[i] = "SINGLE_ROUND" <=> i = 1
    /\ (pc # "correct") =>
         /\ Len(policy_log) = nunique_runde(df_all)
         /\ policy_log # <<>> =>
              (policy_log[Len(policy_log)] = "SINGLE_ROUND"
                  <=> nunique_runde(df_all) = 1)

C4_Witness ==
    /\ pc = "plot"
    /\ Len(policy_log) >= 3
    /\ policy_log[3] = "MULTI_ROUND"

NaiveKorr(i) ==
    FSub(FromInt(df_all[i].Punkte),
         Frac(SumPunkte(df_all, df_all[i].Platz), CountSeat(df_all, df_all[i].Platz)))

\* C5 as stated: a failing mixed-model fit does not abort the run; every
\* ledger row gets the naive per-seat centering for that pass.
C5_FitFailureFallsBack ==
    fit_status = "raised" =>
        /\ pc # "crashed"
        /\ \A i \in 1 .. Len(df_all) : df_all[i].Punkte_korr = NaiveKorr(i)

\* C7: an entry that does not parse as a number does not abort the round:
\* the round appends exactly n rows, the row of a player with a malformed
\* entry has raw score 0, every other row has the score entered, and the
\* program is at the correction pass; only a failing fit ends the run early.
C7_MalformedScoreIsZero ==
    /\ pc = "correct" =>
         LET rows == { i \in 1 .. Len(df_all) : df_all[i].Runde = RoundsCompleted }
         IN  /\ Cardinality(rows) = n_players
             /\ \A i \in rows :
                  LET e == eingaben[df_all[i].Spieler]
                  IN  /\ ~ CanParse(e) => df_all[i].Punkte = 0
                      /\ CanParse(e) => df_all[i].Punkte = ParseFloat(e)
    /\ pc = "crashed" => fit_status = "raised"

C7_Witness ==
    /\ pc = "correct"
    /\ \E a, b \in PlayerSet :
         /\ ~ CanParse(eingaben[a])
         /\ eingaben[a] # <<>>
         /\ CanParse(eingaben[b])

MaxRunde(df) ==
    IF df = <<>> THEN 0
    ELSE CHOOSE g \in RundenIn(df) : \A h \in RundenIn(df) : h <= g

C9_SingleRoundZero ==
    (Len(policy_log) = 1 /\ pc # "correct") =>
        /\ \A i \in 1 .. Len(df_all) :
             /\ df_all[i].Punkte_korr = NaiveKorr(i)
             /\ df_all[i].Punkte_korr = Zero
        /\ pivot_cum # <<>> =>
             /\ DOMAIN pivot_cum = {1}
             /\ \A sp \in PlayerSet : pivot_cum[1][sp] = Zero

C9_Witness ==
    /\ Len(policy_log) = 1
    /\ pc # "correct"
    /\ pivot_cum # <<>>
    /\ \E i, j \in 1 .. Len(df_all) : df_all[i].Punkte # df_all[j].Punkte

RowKey(row) == <<row.Block, row.Runde, row.Spieler, row.Platz, row.Punkte>>

\* C10: no step removes a ledger row or changes the block, global round,
\* player, seat or raw score of a row already appended.
C10_AppendOnly ==
    [][ /\ Len(df_all') >= Len(df_all)
        /\ \A i \in 1 .. Len(df_all) : RowKey(df_all'[i]) = RowKey(df_all[i]) ]_vars

C10_Witness ==
    /\ pc = "plot"
    /\ fit_status = "ok"
    /\ Len(policy_log) >= 2
    /\ \E i \in 1 .. Len(df_all) :
         df_all[i].Punkte # 0 /\ df_all[i].Punkte_vorhergesagt # Zero

====
